---- MODULE Spec2Model ----
(***************************************************************************)
(* A model of terms.py: the script that interleaves lines drawn at random  *)
(* from a policy web page (terms) with lines of a poetry file (poetry) and *)
(* appends the accepted ones to a freshly created output file.             *)
(*                                                                         *)
(* A Python str is a sequence of characters, a character a one-element     *)
(* TLA+ string.  A Python list whose order the script never observes       *)
(* (random.choice, remove and len are its only uses) is a bag.             *)
(***************************************************************************)
EXTENDS Integers, Sequences, FiniteSets, Bags, TLC

VARIABLES
    pc,                  \* position of the script
    error,               \* the exception that ended the run, "none" otherwise
    new_file_dir,        \* args.new_file_dir on disk: "absent" or "present"
    new_file_open,       \* new_file has been created and opened (line 72)
    status_code,         \* page.status_code, 0 before requests.get returned
    unique_lines,        \* args.unique_lines
    random_skip,         \* args.random_skip
    max_lines,           \* args.max_lines: <<>> is None, <<n>> the integer n
    max_words_per_line,  \* args.max_words_per_line
    terms,               \* the policy pool
    poetry,              \* the poetry pool
    lines_seen,          \* the set of keys of the lines written so far
    total_lines,         \* the accepted-line counter
    written,             \* the strings new_file.write received for accepted lines
    blank_run,           \* newlines of the blank run the latest step wrote, 0 if none
    reported,            \* the total printed by the final report, <<>> before it
    draws,               \* history: the pool of each draw and what became of the line
    tline,               \* WordTrimmer: the policy line under trimming
    remove,              \* WordTrimmer: the excess word count
    start,               \* WordTrimmer: the prefix candidate
    middle,              \* WordTrimmer: the centered candidate
    end                  \* WordTrimmer: the suffix candidate

vars == <<pc, error, new_file_dir, new_file_open, status_code,
          unique_lines, random_skip, max_lines, max_words_per_line,
          terms, poetry, lines_seen, total_lines, written, blank_run, reported,
          draws,
          tline, remove, start, middle, end>>

----------------------------------------------------------------------------
(* Characters *)

NL == "\n"
SP == " "
Dot == "."
Bang == "!"
EAcute == "e_acute"          \* U+00E9, a non-ASCII lower-case letter

LowerChars == {"a", "b", "c", "d", "e", EAcute}
UpperChars == {"A", "B"}
SpaceChars == {SP, NL}
PunctChars == {Dot, Bang}

IsWordChar(c) == c \in LowerChars \cup UpperChars
IsSpaceChar(c) == c \in SpaceChars
IsAscii(c) == c # EAcute
LowerChar(c) == IF c = "A" THEN "a" ELSE IF c = "B" THEN "b" ELSE c

Min(x, y) == IF x < y THEN x ELSE y
Max(x, y) == IF x > y THEN x ELSE y

----------------------------------------------------------------------------
(* str methods and the regular expressions the script uses *)

isspace(s) == Len(s) > 0 /\ \A i \in 1..Len(s) : IsSpaceChar(s[i])

isupper(s) ==
    /\ \E i \in 1..Len(s) : s[i] \in UpperChars
    /\ \A i \in 1..Len(s) : s[i] \notin LowerChars

lower(s) == [i \in 1..Len(s) |-> LowerChar(s[i])]

\* len(re.findall(r'\w+', s)): the number of maximal runs of word characters
CountWords(s) ==
    Cardinality({i \in 1..Len(s) :
        IsWordChar(s[i]) /\ (i = 1 \/ ~IsWordChar(s[i - 1]))})

\* s.split(sep) for a one-character separator
RECURSIVE split(_, _)
split(s, sep) ==
    IF \A i \in 1..Len(s) : s[i] # sep
    THEN <<s>>
    ELSE LET k == CHOOSE i \in 1..Len(s) :
                      s[i] = sep /\ \A j \in 1..(i - 1) : s[j] # sep
         IN  <<SubSeq(s, 1, k - 1)>> \o split(SubSeq(s, k + 1, Len(s)), sep)

\* sep.join(list)
RECURSIVE join(_, _)
join(sep, list) ==
    IF Len(list) = 0 THEN <<>>
    ELSE IF Len(list) = 1 THEN list[1]
    ELSE list[1] \o <<sep>> \o join(sep, Tail(list))

\* A slice bound i of a list of length n, as Python clamps it
SliceIndex(i, n) == IF i < 0 THEN Max(n + i, 0) ELSE Min(i, n)

\* list[lo:hi]
Slice(list, lo, hi) ==
    LET a == SliceIndex(lo, Len(list))
        b == SliceIndex(hi, Len(list))
    IN  IF b <= a THEN <<>> ELSE SubSeq(list, a + 1, b)

\* s.lstrip(), s.rstrip(), s.strip(): whitespace off the ends
RECURSIVE lstrip(_)
lstrip(s) == IF Len(s) > 0 /\ IsSpaceChar(s[1]) THEN lstrip(Tail(s)) ELSE s

RECURSIVE rstrip(_)
rstrip(s) ==
    IF Len(s) > 0 /\ IsSpaceChar(s[Len(s)])
    THEN rstrip(SubSeq(s, 1, Len(s) - 1)) ELSE s

strip(s) == lstrip(rstrip(s))

\* s.rstrip(punctuation)
RECURSIVE rstrip_punctuation(_)
rstrip_punctuation(s) ==
    IF Len(s) > 0 /\ s[Len(s)] \in PunctChars
    THEN rstrip_punctuation(SubSeq(s, 1, Len(s) - 1)) ELSE s

\* re.sub(r'[^\w\s]', ' ', s)
sub_punctuation(s) ==
    [i \in 1..Len(s) |->
        IF IsWordChar(s[i]) \/ IsSpaceChar(s[i]) THEN s[i] ELSE SP]

\* re.sub(' +', ' ', s)
RECURSIVE sub_spaces(_)
sub_spaces(s) ==
    IF Len(s) = 0 THEN <<>>
    ELSE IF Len(s) >= 2 /\ s[1] = SP /\ s[2] = SP THEN sub_spaces(Tail(s))
    ELSE <<s[1]>> \o sub_spaces(Tail(s))

----------------------------------------------------------------------------
(* WordTrimmer: lines 100-107 *)

\* remove = len(re.findall(r'\w+', tline)) - args.max_words_per_line
Excess(t, mw) == CountWords(t) - mw

\* the test of lines 101-102
NeedsTrim(t, mw) == mw # 0 /\ CountWords(t) > mw

\* ' '.join(tline.split(' ')[:-remove])
TrimStart(t, r) == join(SP, Slice(split(t, SP), 0, 0 - r))

\* ' '.join(tline.split(' ')[remove // 2:-(remove // 2)])
TrimMiddle(t, r) == join(SP, Slice(split(t, SP), r \div 2, 0 - (r \div 2)))

\* ' '.join(tline.split(' ')[remove:])
TrimEnd(t, r) == join(SP, Slice(split(t, SP), r, Len(split(t, SP))))

\* the values random.choice([start, middle, end]) can give tline; tline itself
\* when the line is not trimmed
TrimChoices(t, mw) ==
    IF NeedsTrim(t, mw)
    THEN {TrimStart(t, Excess(t, mw)), TrimMiddle(t, Excess(t, mw)),
          TrimEnd(t, Excess(t, mw))}
    ELSE {t}

----------------------------------------------------------------------------
(* The rest of the two branches *)

\* the key kept in lines_seen: line.strip().lower()
SeenKey(s) == lower(strip(s))

\* a normalization that strips before it turns punctuation into spaces
NormalizeStripFirst(s) == sub_spaces(sub_punctuation(strip(split(s, Dot)[1])))

\* lines 123-125: first sentence, punctuation to spaces, strip, collapse spaces
Normalize(s) == sub_spaces(strip(sub_punctuation(split(s, Dot)[1])))

\* what line 126 writes
TermsWrite(s) == Normalize(s) \o <<NL>>

\* what line 158 writes
PoetryWrite(s) == rstrip_punctuation(s)

\* bool(args.max_lines): None and 0 are both false
MaxLinesSet == max_lines # <<>> /\ max_lines[1] # 0

\* lines 95-97 and 142-144
MaxLinesReached == MaxLinesSet /\ total_lines >= max_lines[1]

\* the blank runs of lines 131-132 and 163-164, in newlines
BlankRuns == {0, 1, 2, 3, 4}

----------------------------------------------------------------------------
(* Bounds and inputs *)

MaxTerms == 2
MaxPoetry == 2
MaxErrorPage == 1
MaxLinesArg == 1
MaxWordsArg == 1

\* lines of the converted page; splitlines leaves no line terminator in them
TermLines ==
    { <<>>, <<SP>>, <<"A", Dot>>, <<EAcute>>, <<"a", SP, "b">> }

\* lines of the poetry file; readlines keeps the terminator, which only the
\* last line of a file can lack
PoetryLines ==
    { <<NL>>, <<"a", NL>>, <<"b", Bang>> }

EndsWithNL(s) == Len(s) > 0 /\ s[Len(s)] = NL

SeqsUpTo(S, n) == UNION {[1..k -> S] : k \in 0..n}

BagOfSeq(s) ==
    [x \in {s[i] : i \in DOMAIN s} |-> Cardinality({i \in DOMAIN s : s[i] = x})]

TermPools == {BagOfSeq(s) : s \in SeqsUpTo(TermLines, MaxTerms)}

\* the page a server sends with a non-success status
ErrorLines == { <<>>, <<"a", SP, "b">> }
ErrorPools == {BagOfSeq(s) : s \in SeqsUpTo(ErrorLines, MaxErrorPage)}

PoetryPools ==
    {BagOfSeq(s) : s \in {q \in SeqsUpTo(PoetryLines, MaxPoetry) :
                            \A i \in 1..(Len(q) - 1) : EndsWithNL(q[i])}}

\* policy lines of 1..MaxTokens single-space-separated words
MaxTokens == 5
MaxTrimWords == 4
TrimWords == { <<"a">>, <<"b">> }
TrimLines ==
    {join(SP, ws) : ws \in UNION {[1..n -> TrimWords] : n \in 1..MaxTokens}}

\* policy lines of at most MaxNormLen characters, for the normalization alone
MaxNormLen == 4
NormChars == {"a", "b", SP, Dot, Bang}
NormLines == SeqsUpTo(NormChars, MaxNormLen)

MaxLinesArgs == {<<>>} \cup {<<n>> : n \in 0..MaxLinesArg}
MaxWordsArgs == 0..MaxWordsArg

----------------------------------------------------------------------------
(* The script *)

\* the WordTrimmer's variables are not followed through the run
TrimIdle == tline = <<>> /\ remove = 0 /\ start = <<>> /\ middle = <<>> /\ end = <<>>
TrimVars == <<tline, remove, start, middle, end>>
ArgVars == <<unique_lines, random_skip, max_lines, max_words_per_line>>
LoopVars == <<terms, poetry, lines_seen, total_lines, written, draws>>

\* a step that does not reach lines 131-132 or 163-164 writes no blank run
NoBlankRun == blank_run' = 0

\* line 55: the arguments are parsed, nothing else has run
Init ==
    /\ pc = "makedirs"
    /\ error = "none"
    /\ new_file_dir \in {"absent", "present"}
    /\ new_file_open = FALSE
    /\ status_code = 0
    /\ unique_lines \in BOOLEAN
    /\ random_skip \in BOOLEAN
    /\ max_lines \in MaxLinesArgs
    /\ max_words_per_line \in MaxWordsArgs
    /\ terms = EmptyBag
    /\ poetry = EmptyBag
    /\ lines_seen = {}
    /\ total_lines = 0
    /\ written = <<>>
    /\ blank_run = 0
    /\ reported = <<>>
    /\ draws = <<>>
    /\ TrimIdle

\* lines 58-59
MakeDirs ==
    /\ pc = "makedirs"
    /\ new_file_dir' = IF new_file_dir = "absent" THEN "present" ELSE new_file_dir
    /\ pc' = "open_new_file"
    /\ UNCHANGED <<error, new_file_open, status_code, reported>>
    /\ UNCHANGED <<ArgVars, LoopVars, TrimVars>>
    /\ NoBlankRun

\* lines 62-72
OpenNewFile ==
    /\ pc = "open_new_file"
    /\ new_file_open' = TRUE
    /\ pc' = "get"
    /\ UNCHANGED <<error, new_file_dir, status_code, reported>>
    /\ UNCHANGED <<ArgVars, LoopVars, TrimVars>>
    /\ NoBlankRun

\* lines 74-75: requests.get raises when there is no response at all and
\* returns a response of any status
RequestsGet ==
    /\ pc = "get"
    /\ \/ /\ error' = "ConnectionError"
          /\ pc' = "aborted"
          /\ UNCHANGED status_code
       \/ /\ status_code' \in {200, 404}
          /\ pc' = "open_poetry"
          /\ UNCHANGED error
    /\ UNCHANGED <<new_file_dir, new_file_open, reported>>
    /\ UNCHANGED <<ArgVars, LoopVars, TrimVars>>
    /\ NoBlankRun

\* lines 76 and 81: html2text.html2text(page.text).splitlines(), whatever the
\* status of the response
PageLines == IF status_code = 200 THEN TermPools ELSE ErrorPools

\* lines 80-84
OpenPoetry ==
    /\ pc = "open_poetry"
    /\ \/ /\ error' = "FileNotFoundError"
          /\ pc' = "aborted"
          /\ UNCHANGED <<terms, poetry>>
       \/ /\ terms' \in PageLines
          /\ poetry' \in PoetryPools
          /\ pc' = "while"
          /\ UNCHANGED error
    /\ lines_seen' = lines_seen
    /\ total_lines' = total_lines
    /\ UNCHANGED <<new_file_dir, new_file_open, status_code, reported>>
    /\ UNCHANGED <<ArgVars, written, draws, TrimVars>>
    /\ NoBlankRun

\* a loop that tests the policy pool only
LoopConditionTermsOnly == BagCardinality(terms) > 0

\* a loop that runs while either pool has lines
LoopConditionOr == BagCardinality(terms) > 0 \/ BagCardinality(poetry) > 0

\* a loop that tests the poetry pool only
LoopConditionPoetryOnly == BagCardinality(poetry) > 0

\* line 85: the loop condition
LoopCondition == BagCardinality(terms) > 0 /\ BagCardinality(poetry) > 0

\* line 85
While ==
    /\ pc = "while"
    /\ pc' = IF LoopCondition THEN "terms" ELSE "report"
    /\ UNCHANGED <<error, new_file_dir, new_file_open, status_code, reported>>
    /\ UNCHANGED <<ArgVars, LoopVars, TrimVars>>
    /\ NoBlankRun

\* a draw that leaves the line in its pool
RemoveNothing(pool, line) == pool

\* lines 88 and 138: list.remove takes the first occurrence out
Remove(pool, line) == pool (-) SetToBag({line})

\* a coin flip that skips whether or not --random_skip was passed
SkipLineUnflagged(coin) == coin = 1

\* lines 111 and 148
SkipLine(coin) == random_skip /\ coin = 1

\* lines 117-118 and 154-155
Seen(cand) == unique_lines /\ SeenKey(cand) \in lines_seen

\* what becomes of a drawn line, by the tests of lines 89-119 and 139-156 in
\* their order; cand is the line as it reaches the uniqueness test
Outcome(drawn, cand, coin) ==
    IF isspace(drawn) THEN "blank"
    ELSE IF MaxLinesReached THEN "break"
    ELSE IF SkipLine(coin) THEN "skip"
    ELSE IF Seen(cand) THEN "duplicate"
    ELSE "written"

\* a uniqueness test without its continue
WritesDuplicateToo(outcome) == outcome \in {"written", "duplicate"}

\* lines 126 and 158 are reached
Writes(outcome) == outcome = "written"

\* a terms branch that also continues after a whitespace-only line
TermsNextBlankContinues(outcome) ==
    IF outcome = "break" THEN "report"
    ELSE IF outcome \in {"skip", "duplicate", "blank"} THEN "while"
    ELSE "poetry"

\* where the terms branch leaves the script: break, continue, or on to line 137
TermsNext(outcome) ==
    IF outcome = "break" THEN "report"
    ELSE IF outcome \in {"skip", "duplicate"} THEN "while"
    ELSE "poetry"

\* where the poetry branch leaves the script: break, or the next iteration
PoetryNext(outcome) == IF outcome = "break" THEN "report" ELSE "while"

\* an accept that records the key whether or not --unique_lines was passed
AcceptRecordsAlways(key, out) ==
    /\ lines_seen' = lines_seen \cup {key}
    /\ written' = Append(written, out)
    /\ total_lines' = total_lines + 1
    /\ blank_run' \in BlankRuns

\* an accept that forgets to count
AcceptNoCount(key, out) ==
    /\ lines_seen' = IF unique_lines THEN lines_seen \cup {key} ELSE lines_seen
    /\ written' = Append(written, out)
    /\ total_lines' = total_lines
    /\ blank_run' \in BlankRuns

\* lines 126-132 and 158-164: the write, the count and the blank run
Accept(key, out) ==
    /\ lines_seen' = IF unique_lines THEN lines_seen \cup {key} ELSE lines_seen
    /\ written' = Append(written, out)
    /\ total_lines' = total_lines + 1
    /\ blank_run' \in BlankRuns

\* lines 87-134; random.choice raises IndexError on an empty list
TermsBranch ==
    /\ pc = "terms"
    /\ IF BagCardinality(terms) = 0
       THEN /\ error' = "IndexError"
            /\ pc' = "aborted"
            /\ UNCHANGED <<terms, lines_seen, total_lines, written, draws>> /\ NoBlankRun
       ELSE /\ UNCHANGED error
            /\ \E drawn \in BagToSet(terms) :
               \E cand \in TrimChoices(IF isupper(drawn) THEN lower(drawn) ELSE drawn,
                                       max_words_per_line) :
               \E coin \in {0, 1} :
                  LET outcome == Outcome(drawn, cand, coin)
                  IN  /\ terms' = Remove(terms, drawn)
                      /\ draws' = Append(draws, <<"terms", outcome>>)
                      /\ pc' = TermsNext(outcome)
                      /\ IF Writes(outcome)
                         THEN Accept(SeenKey(cand), TermsWrite(cand))
                         ELSE UNCHANGED <<lines_seen, total_lines, written>> /\ NoBlankRun
    /\ UNCHANGED <<new_file_dir, new_file_open, status_code, reported>>
    /\ UNCHANGED <<ArgVars, poetry, TrimVars>>

\* lines 137-166; random.choice raises IndexError on an empty list
PoetryBranch ==
    /\ pc = "poetry"
    /\ IF BagCardinality(poetry) = 0
       THEN /\ error' = "IndexError"
            /\ pc' = "aborted"
            /\ UNCHANGED <<poetry, lines_seen, total_lines, written, draws>> /\ NoBlankRun
       ELSE /\ UNCHANGED error
            /\ \E drawn \in BagToSet(poetry) :
               \E coin \in {0, 1} :
                  LET outcome == Outcome(drawn, drawn, coin)
                  IN  /\ poetry' = Remove(poetry, drawn)
                      /\ draws' = Append(draws, <<"poetry", outcome>>)
                      /\ pc' = PoetryNext(outcome)
                      /\ IF Writes(outcome)
                         THEN Accept(SeenKey(drawn), PoetryWrite(drawn))
                         ELSE UNCHANGED <<lines_seen, total_lines, written>> /\ NoBlankRun
    /\ UNCHANGED <<new_file_dir, new_file_open, status_code, reported>>
    /\ UNCHANGED <<ArgVars, terms, TrimVars>>

\* lines 169-170
Report ==
    /\ pc = "report"
    /\ reported' = <<total_lines>>
    /\ pc' = "done"
    /\ UNCHANGED <<error, new_file_dir, new_file_open, status_code>>
    /\ UNCHANGED <<ArgVars, LoopVars, TrimVars>>
    /\ NoBlankRun

Next ==
    \/ MakeDirs
    \/ OpenNewFile
    \/ RequestsGet
    \/ OpenPoetry
    \/ While
    \/ TermsBranch
    \/ PoetryBranch
    \/ Report

Spec == Init /\ [][Next]_vars

\* the interpreter keeps running the script: a step that can be taken is taken
SpecFair == Spec /\ WF_vars(Next)

----------------------------------------------------------------------------
(* The WordTrimmer on its own: lines 100-107 applied to one policy line *)

InitTrim ==
    /\ pc = "trim"
    /\ tline \in TrimLines
    /\ max_words_per_line \in 1..MaxTrimWords
    /\ remove = 0
    /\ start = <<>>
    /\ middle = <<>>
    /\ end = <<>>
    /\ error = "none"
    /\ new_file_dir = "present"
    /\ new_file_open = TRUE
    /\ status_code = 200
    /\ unique_lines = FALSE
    /\ random_skip = FALSE
    /\ max_lines = <<>>
    /\ terms = EmptyBag
    /\ poetry = EmptyBag
    /\ lines_seen = {}
    /\ total_lines = 0
    /\ written = <<>>
    /\ blank_run = 0
    /\ reported = <<>>
    /\ draws = <<>>

\* lines 100-106
TrimCandidates ==
    /\ pc = "trim"
    /\ IF NeedsTrim(tline, max_words_per_line)
       THEN /\ remove' = Excess(tline, max_words_per_line)
            /\ start' = TrimStart(tline, remove')
            /\ middle' = TrimMiddle(tline, remove')
            /\ end' = TrimEnd(tline, remove')
            /\ pc' = "trim_choice"
       ELSE /\ remove' = 0
            /\ UNCHANGED <<start, middle, end>>
            /\ pc' = "trimmed"
    /\ UNCHANGED <<tline, error, new_file_dir, new_file_open, status_code, reported>>
    /\ UNCHANGED <<ArgVars, LoopVars>>
    /\ NoBlankRun

\* line 107
TrimChoice ==
    /\ pc = "trim_choice"
    /\ tline' \in {start, middle, end}
    /\ pc' = "trimmed"
    /\ UNCHANGED <<remove, start, middle, end>>
    /\ UNCHANGED <<error, new_file_dir, new_file_open, status_code, reported>>
    /\ UNCHANGED <<ArgVars, LoopVars>>
    /\ NoBlankRun

NextTrim == TrimCandidates \/ TrimChoice

SpecTrim == InitTrim /\ [][NextTrim]_vars

----------------------------------------------------------------------------
(* The normalization on its own: lines 123-126 applied to one line, twice *)

InitNorm ==
    /\ pc = "normalize"
    /\ tline \in NormLines
    /\ written = <<>>
    /\ remove = 0
    /\ start = <<>>
    /\ middle = <<>>
    /\ end = <<>>
    /\ error = "none"
    /\ new_file_dir = "present"
    /\ new_file_open = TRUE
    /\ status_code = 200
    /\ unique_lines = FALSE
    /\ random_skip = FALSE
    /\ max_lines = <<>>
    /\ max_words_per_line = 0
    /\ terms = EmptyBag
    /\ poetry = EmptyBag
    /\ lines_seen = {}
    /\ total_lines = 0
    /\ blank_run = 0
    /\ reported = <<>>
    /\ draws = <<>>

\* lines 123-126
NormalizeLine ==
    /\ pc = "normalize"
    /\ tline' = Normalize(tline)
    /\ written' = Append(written, TermsWrite(tline))
    /\ pc' = IF Len(written) = 0 THEN "normalize" ELSE "normalized"
    /\ UNCHANGED <<remove, start, middle, end>>
    /\ UNCHANGED <<error, new_file_dir, new_file_open, status_code, reported>>
    /\ UNCHANGED <<ArgVars, terms, poetry, lines_seen, total_lines, draws>>
    /\ NoBlankRun

NextNorm == NormalizeLine

SpecNorm == InitNorm /\ [][NextNorm]_vars

----------------------------------------------------------------------------
(* The claims of the specification, stated on the model *)

\* C1: whenever max_lines is given on the command line (any integer >= 0,
\* 0 included), the accepted-line counter never exceeds it.
C1_TotalWithinGivenMax ==
    max_lines # <<>> => total_lines <= max_lines[1]

\* C2: with unique_lines enabled, no two accepted lines, in the form in which
\* they are written, are identical after case folding.
C2_WrittenLinesUnique ==
    unique_lines =>
        \A i, j \in DOMAIN written :
            i # j => lower(written[i]) # lower(written[j])

\* C3: no accepted line in the output is empty or whitespace-only: a candidate
\* that is empty or whitespace-only as drawn or after normalization is never
\* written.
C3_NoBlankAcceptedLine ==
    \A i \in DOMAIN written : strip(written[i]) # <<>>

\* C4: once a step has brought the accepted count to max_lines, no line is
\* removed from either pool any more.
C4_NoDrawAfterMaxReached ==
    [][(max_lines # <<>> /\ total_lines >= 1 /\ total_lines = max_lines[1])
          => /\ BagCardinality(terms') = BagCardinality(terms)
             /\ BagCardinality(poetry') = BagCardinality(poetry)]_vars

\* C5: no accepted line in the output contains a non-ASCII character.
C5_WrittenLinesAscii ==
    \A i \in DOMAIN written : \A k \in DOMAIN written[i] : IsAscii(written[i][k])

\* C6: for a line of N single-space-separated words and 1 <= M < N, each of
\* the three candidates has at most M words.
C6_CandidatesWithinMax ==
    (pc \in {"trim_choice", "trimmed"} /\ remove > 0) =>
        /\ CountWords(start) <= max_words_per_line
        /\ CountWords(middle) <= max_words_per_line
        /\ CountWords(end) <= max_words_per_line

\* C7: the candidate chosen for a line of N > M >= 1 words is never the empty
\* string: an empty candidate is not among the choices.
C7_ChosenCandidateNotEmpty ==
    (pc = "trimmed" /\ remove > 0) => tline # <<>>

\* C8: when opening the poetry file fails, this run has not created the
\* output file.
C8_NoOutputWhenPoetryMissing ==
    error = "FileNotFoundError" => ~new_file_open

\* C9: the output file is created only after the retrieval has succeeded.
C9_OutputOnlyAfterRetrieval ==
    new_file_open => status_code = 200

\* C10: after a non-success response the loop body is never entered and
\* nothing is written.
C10_NonSuccessIsFatal ==
    status_code \notin {0, 200} =>
        pc \notin {"terms", "poetry"} /\ written = <<>>

----------------------------------------------------------------------------
(* The draws *)

LastDraw == draws[Len(draws)]
Drew(pool) == Len(draws') = Len(draws) + 1 /\ draws'[Len(draws')][1] = pool
NumDraws(pool) == Cardinality({i \in DOMAIN draws : draws[i][1] = pool})
InLoop == pc \in {"while", "terms", "poetry", "report"}
OneLess(before, after) ==
    after \sqsubseteq before /\ BagCardinality(after) = BagCardinality(before) - 1
Alternates ==
    \A i \in DOMAIN draws : draws[i][1] = (IF i % 2 = 1 THEN "terms" ELSE "poetry")

\* C11: in the loop a pool never gains a line and loses at most one per step;
\* a draw takes exactly one line out of the pool it draws from and leaves the
\* other pool alone, whatever becomes of the line.
C11_DrawRemovesOneForGood ==
    [][InLoop =>
          /\ terms' \sqsubseteq terms
          /\ poetry' \sqsubseteq poetry
          /\ BagCardinality(terms) - BagCardinality(terms') \in {0, 1}
          /\ BagCardinality(poetry) - BagCardinality(poetry') \in {0, 1}
          /\ Drew("terms") => OneLess(terms, terms') /\ poetry' = poetry
          /\ Drew("poetry") => OneLess(poetry, poetry') /\ terms' = terms]_vars

\* C11 witness: a policy line was drawn and rejected as a duplicate
C11_Witness ==
    draws # <<>> /\ LastDraw = <<"terms", "duplicate">> /\ pc = "while"

\* C12 (as stated): for every option combination the draws alternate policy,
\* poetry, policy, poetry.
C12_StrictAlternation == Alternates

\* C12 (amended): without random_skip and unique_lines the draws alternate
\* policy, poetry, policy, poetry.
C12_AlternationWithoutContinue ==
    (~random_skip /\ ~unique_lines) => Alternates

\* C12 witness: policy, poetry, policy drawn with both options off
C12_Witness ==
    ~random_skip /\ ~unique_lines /\ Len(draws) >= 3

\* C13: once the loop is reached the run ends at DONE, without an error.
C13_LoopReachesDone ==
    (pc = "while") ~> (pc = "done" /\ error = "none")

\* C13 witness: a run that ended by pool exhaustion with every candidate
\* rejected
C13_Witness ==
    /\ pc = "done"
    /\ draws # <<>>
    /\ total_lines = 0
    /\ terms = EmptyBag \/ poetry = EmptyBag

\* C14: with a pool empty at the start of the loop the script goes to the
\* report at once and ends: no draw, no accepted line, no write, no error.
C14_EmptyPoolEndsAtOnce ==
    [][/\ (pc = "while" /\ draws = <<>>
              /\ (terms = EmptyBag \/ poetry = EmptyBag)) =>
              /\ pc' = "report"
              /\ terms' = terms /\ poetry' = poetry /\ draws' = <<>>
              /\ written' = <<>> /\ total_lines' = 0 /\ error' = "none"
       /\ (pc = "report" /\ draws = <<>>) =>
              /\ pc' = "done"
              /\ reported' = <<0>>
              /\ terms' = terms /\ poetry' = poetry /\ draws' = <<>>
              /\ written' = <<>> /\ total_lines' = 0 /\ error' = "none"]_vars

\* C14 witness: a run that ended without a draw
C14_Witness ==
    pc = "done" /\ draws = <<>> /\ reported = <<0>> /\ error = "none"

\* a normalized line: ASCII words separated by single spaces
IsNormalized(s) ==
    /\ \A i \in DOMAIN s : IsAscii(s[i]) /\ (IsWordChar(s[i]) \/ s[i] = SP)
    /\ \A i \in 1..(Len(s) - 1) : ~(s[i] = SP /\ s[i + 1] = SP)
    /\ Len(s) > 0 => s[1] # SP /\ s[Len(s)] # SP

\* C15: normalizing a normalized line returns it unchanged, and a second
\* normalization of any line changes nothing.
C15_NormalizeIdempotent ==
    [][(pc = "normalize" /\ (IsNormalized(tline) \/ Len(written) = 1))
          => tline' = tline]_vars

\* C15 witness: a line that the first pass changed has gone through both
C15_Witness ==
    pc = "normalized" /\ written = << <<"a", SP, "b", NL>>, <<"a", SP, "b", NL>> >>

\* C16: a draw rejected by the coin flip or as a duplicate leaves the output,
\* the counter and lines_seen as they were and takes the line out of its pool.
C16_RejectionOnlyShrinksPool ==
    [][(Len(draws') = Len(draws) + 1
          /\ draws'[Len(draws')][2] \in {"skip", "duplicate"}) =>
          /\ written' = written
          /\ blank_run' = 0
          /\ total_lines' = total_lines
          /\ lines_seen' = lines_seen
          /\ BagCardinality(terms') + BagCardinality(poetry')
               = BagCardinality(terms) + BagCardinality(poetry) - 1]_vars

\* C16 witness: a poetry line skipped after a line was accepted
C16_Witness ==
    draws # <<>> /\ LastDraw = <<"poetry", "skip">> /\ total_lines = 1

\* C17: a line is only ever drawn from a pool that has one.
C17_NoDrawFromEmptyPool ==
    /\ pc = "terms" => terms # EmptyBag
    /\ pc = "poetry" => poetry # EmptyBag
    /\ error # "IndexError"

\* C17 witness: the policy draw of an iteration entered through continue
C17_Witness ==
    pc = "terms" /\ draws # <<>> /\ LastDraw[1] = "terms"

\* C18: lines_seen never shrinks, is empty without unique_lines and has as
\* many keys as lines were accepted with it.
C18_SeenTracksAccepted ==
    [][/\ lines_seen \subseteq lines_seen'
       /\ IF unique_lines'
          THEN Cardinality(lines_seen') = total_lines'
          ELSE lines_seen' = {}]_vars

\* C18 witness: two keys recorded and a duplicate rejected
C18_Witness ==
    /\ unique_lines
    /\ Cardinality(lines_seen) = 2
    /\ \E i \in DOMAIN draws : draws[i][2] = "duplicate"

\* C19: total_lines is the number of accepted lines written, a blank run is
\* only written with an accepted line, and the report prints the counter.
C19_TotalIsLinesWritten ==
    [][/\ total_lines' = Len(written')
       /\ blank_run' # 0 => Len(written') = Len(written) + 1
       /\ pc' = "done" => reported' = <<total_lines'>>]_vars

\* C19 witness: a run that reported two lines, one draw rejected
C19_Witness ==
    /\ pc = "done"
    /\ reported = <<2>>
    /\ Len(draws) > 2

\* C20: poetry is never drawn more often than policy, and without random_skip
\* and unique_lines the two counts differ by at most one.
C20_PoolsInLockStep ==
    /\ NumDraws("poetry") <= NumDraws("terms")
    /\ (~random_skip /\ ~unique_lines) =>
          NumDraws("terms") - NumDraws("poetry") <= 1

\* C20 witness: both options off, two policy draws and one poetry draw
C20_Witness ==
    /\ ~random_skip /\ ~unique_lines
    /\ NumDraws("terms") = 2
    /\ NumDraws("poetry") = 1

====
